---- MODULE Spec2Model ----
(***************************************************************************)
(* A model of the MPFR routines of this repository:                        *)
(*   mpfr_rem1 (mpfr_fmod, mpfr_remainder, mpfr_remquo)   src/rem1.c       *)
(*   mpfr_gamma                                            src/gamma.c     *)
(* A floating-point number is a record                                     *)
(*   [kind, sign, prec, m, exp]                                            *)
(* kind is "nan", "inf", "zero" or "reg"; a regular number has a mantissa  *)
(* m of exactly prec bits (2^(prec-1) <= m < 2^prec) and the value         *)
(* sign * m * 2^(exp - prec), MPFR's 0.m * 2^exp.                          *)
(***************************************************************************)
EXTENDS Integers, Sequences, FiniteSets, TLC

(***************************************************************************)
(* Bounds of the model.                                                    *)
(***************************************************************************)
\* precision of the operands x and y
PrecIn == 3
\* the operands' exponents range over 0 .. ExpSpan
ExpSpan == 2
\* bits of a C long in the model (sizeof(long) * CHAR_BIT, scaled down)
LongBits == 3
\* most trials of an escalation loop the model follows
MaxTrials == 3
\* the working precision of mpfr_atanh that is still followed
MaxNt == 20
\* the leading bits of a working value that are followed
TBits == 5
\* longest string compared
MaxLen == 2

(***************************************************************************)
(* Program constants.                                                      *)
(***************************************************************************)
MPFR_PREC_MIN == 2
WANTED_BITS == LongBits - 1
LONG_MAX == 2^(LongBits - 1) - 1
LONG_MIN == -(2^(LongBits - 1))
LongRange == LONG_MIN .. LONG_MAX

RndModes == {"RNDN", "RNDZ", "RNDU", "RNDD", "RNDA"}

(***************************************************************************)
(* Integer helpers (GMP's mpz functions as rem1.c uses them).              *)
(***************************************************************************)
Abs(n) == IF n < 0 THEN -n ELSE n
Sgn(n) == IF n < 0 THEN -1 ELSE IF n > 0 THEN 1 ELSE 0

RECURSIVE BitLen(_)
BitLen(n) == IF n = 0 THEN 0 ELSE 1 + BitLen(n \div 2)

\* mpz_scan1 (z, 0): index of the lowest set bit of z > 0
RECURSIVE mpz_scan1(_)
mpz_scan1(z) == IF z % 2 = 1 THEN 0 ELSE 1 + mpz_scan1(z \div 2)

\* mpz_powm_ui (r, 2, e, mod): 2^e mod mod, by repeated doubling
RECURSIVE mpz_powm_ui(_, _, _)
mpz_powm_ui(b, e, mod) ==
  IF e = 0 THEN 1 % mod ELSE (b * mpz_powm_ui(b, e - 1, mod)) % mod

\* mpz_tdiv_qr: quotient truncated toward zero, remainder with the sign of n
mpz_tdiv_q(n, d) == Sgn(n) * Sgn(d) * (Abs(n) \div Abs(d))
mpz_tdiv_r(n, d) == n - d * mpz_tdiv_q(n, d)
\* mpz_fdiv_qr: quotient rounded toward -infinity, remainder with the sign of d
mpz_fdiv_q(n, d) ==
  IF mpz_tdiv_r(n, d) # 0 /\ Sgn(n) * Sgn(d) < 0
  THEN mpz_tdiv_q(n, d) - 1 ELSE mpz_tdiv_q(n, d)
mpz_fdiv_r(n, d) == n - d * mpz_fdiv_q(n, d)

(***************************************************************************)
(* Numbers.                                                                *)
(***************************************************************************)
Nan(p, s)  == [kind |-> "nan",  sign |-> s, prec |-> p, m |-> 0, exp |-> 0]
Inf(p, s)  == [kind |-> "inf",  sign |-> s, prec |-> p, m |-> 0, exp |-> 0]
Zero(p, s) == [kind |-> "zero", sign |-> s, prec |-> p, m |-> 0, exp |-> 0]
Reg(p, s, mant, e) ==
  [kind |-> "reg", sign |-> s, prec |-> p, m |-> mant, exp |-> e]

MPFR_IS_NAN(f)      == f.kind = "nan"
MPFR_IS_INF(f)      == f.kind = "inf"
MPFR_IS_ZERO(f)     == f.kind = "zero"
MPFR_IS_SINGULAR(f) == f.kind # "reg"
MPFR_SIGN(f)        == f.sign

\* The value of f.  Every value of the model is an integer multiple of
\* 2^(-ValScale); Val gives that multiple (0 for a singular f).
ValScale == 2 * PrecIn + 2
Val(f) == IF f.kind = "reg" THEN f.sign * f.m * 2^(f.exp - f.prec + ValScale)
                            ELSE 0

\* MPFR_SET_NAN / MPFR_SET_INF: only the exponent field is written
MPFR_SET_NAN(f) == [f EXCEPT !.kind = "nan", !.m = 0, !.exp = 0]
MPFR_SET_INF(f) == [f EXCEPT !.kind = "inf", !.m = 0, !.exp = 0]

\* mpfr_neg (f, f, GMP_RNDN) on the same variable: exact, the sign flips
mpfr_neg(f) == [f EXCEPT !.sign = -f.sign]

\* The rounding primitive: the magnitude mag (> 0) of a value of sign s is
\* rounded to p bits under rnd.  up tells whether the magnitude is rounded up.
RoundUpMag(hi, lo, half, rnd, s) ==
  CASE rnd = "RNDN" -> lo > half \/ (lo = half /\ hi % 2 = 1)
    [] rnd = "RNDZ" -> FALSE
    [] rnd = "RNDA" -> lo > 0
    [] rnd = "RNDU" -> lo > 0 /\ s > 0
    [] rnd = "RNDD" -> lo > 0 /\ s < 0

\* [m, carry, inex]: the p-bit mantissa, 1 if the exponent grows by one, and
\* the ternary value of the signed result
RoundRaw(mag, p, rnd, s) ==
  LET b == BitLen(mag) IN
  IF b <= p
  THEN [m |-> mag * 2^(p - b), carry |-> 0, inex |-> 0]
  ELSE LET sh   == b - p
           hi   == mag \div 2^sh
           lo   == mag % 2^sh
           up   == RoundUpMag(hi, lo, 2^(sh - 1), rnd, s)
           mant == IF up THEN hi + 1 ELSE hi
           ix   == IF lo = 0 THEN 0 ELSE IF up THEN s ELSE -s
       IN IF mant = 2^p
          THEN [m |-> 2^(p - 1), carry |-> 1, inex |-> ix]
          ELSE [m |-> mant, carry |-> 0, inex |-> ix]

\* mpfr_set4 (a, b, rnd, s): b rounded to the precision of a, with sign s
mpfr_set4(a, b, rnd, s) ==
  IF MPFR_IS_SINGULAR(b)
  THEN [num |-> [a EXCEPT !.kind = b.kind, !.sign = s, !.m = 0, !.exp = 0],
        inex |-> 0]
  ELSE LET rr == RoundRaw(b.m, a.prec, rnd, s) IN
       [num |-> Reg(a.prec, s, rr.m, b.exp + rr.carry), inex |-> rr.inex]

\* the magnitude mag rounded to p bits under rnd, as a magnitude
RoundMag(mag, p, rnd, s) ==
  LET rr == RoundRaw(mag, p, rnd, s) IN
  IF BitLen(mag) <= p THEN mag ELSE rr.m * 2^(BitLen(mag) - p + rr.carry)

\* mpfr_can_round (b, err, rnd1, rnd2, prec): b approximates a value in the
\* direction rnd1 with an error of at most 2^(EXP(b) - err); nonzero when
\* every value that close rounds to prec bits in the direction rnd2 as b does.
\* The magnitudes are in units of 2^(EXP(b) - PREC(b) - k).
mpfr_can_round(b, err, rnd1, rnd2, prec) ==
  /\ ~MPFR_IS_SINGULAR(b)
  /\ err > 0
  /\ LET k    == IF err > b.prec THEN err - b.prec ELSE 0
         mag  == b.m * 2^k
         e    == 2^(b.prec + k - err)
         away == rnd1 = "RNDA" \/ (rnd1 = "RNDU" /\ b.sign > 0)
                               \/ (rnd1 = "RNDD" /\ b.sign < 0)
         lo   == IF rnd1 = "RNDN" \/ away THEN mag - e ELSE mag
         hi   == IF rnd1 = "RNDN" \/ ~away THEN mag + e ELSE mag
     IN /\ lo > 0
        /\ RoundMag(lo, prec, rnd2, b.sign) = RoundMag(hi, prec, rnd2, b.sign)

\* a variant of mpfr_set that takes mpfr_abs's sign argument
mpfr_set_AsAbs(a, b, rnd) == mpfr_set4(a, b, rnd, 1)
\* mpfr_set (a, b, rnd) is mpfr_set4 (a, b, rnd, MPFR_SIGN (b))
mpfr_set(a, b, rnd) == mpfr_set4(a, b, rnd, MPFR_SIGN(b))
\* mpfr_abs (a, b, rnd) is mpfr_set4 (a, b, rnd, 1)
mpfr_abs(a, b, rnd) == mpfr_set4(a, b, rnd, 1)
\* MPFR_SET_ZERO: only the exponent field is written
MPFR_SET_ZERO(f) == [f EXCEPT !.kind = "zero", !.m = 0, !.exp = 0]
\* MPFR_SET_SAME_SIGN (a, b), MPFR_CHANGE_SIGN (a)
MPFR_SET_SAME_SIGN(a, b) == [a EXCEPT !.sign = b.sign]
MPFR_CHANGE_SIGN(a) == [a EXCEPT !.sign = -a.sign]

\* mpfr_set_z (f, z, rnd): the integer z rounded to the precision of f
mpfr_set_z(f, z, rnd) ==
  IF z = 0
  THEN [num |-> Zero(f.prec, 1), inex |-> 0]
  ELSE LET rr == RoundRaw(Abs(z), f.prec, rnd, Sgn(z)) IN
       [num |-> Reg(f.prec, Sgn(z), rr.m, BitLen(Abs(z)) + rr.carry),
        inex |-> rr.inex]

\* mpfr_set_ui (f, 0, GMP_RNDN)
mpfr_set_ui_0(f) == [num |-> Zero(f.prec, 1), inex |-> 0]
\* mpfr_set_ui (f, 1, rnd): 1 = 0.1 * 2^1 is exact at every precision
mpfr_set_ui_1(f) == [num |-> Reg(f.prec, 1, 2^(f.prec - 1), 1), inex |-> 0]

\* mpfr_cmp_ui (f, u) for a regular f: -1, 0 or 1
mpfr_cmp_ui(f, u) == Sgn(Val(f) - u * 2^ValScale)

\* _mpfr_ceil_log2 (d) for an integer d >= 1: the least k with 2^k >= d
RECURSIVE ceil_log2(_)
ceil_log2(d) == IF d <= 1 THEN 0 ELSE 1 + ceil_log2((d + 1) \div 2)

\* mpfr_get_z_exp (z, f): f = z * 2^e with z the signed prec-bit mantissa
mpfr_get_z(f)   == f.sign * f.m
mpfr_get_exp(f) == f.exp - f.prec

(***************************************************************************)
(* C long arithmetic: a result outside the range of long is undefined      *)
(* behaviour, any long may come out.                                       *)
(***************************************************************************)
LongResults(v) == IF v \in LongRange THEN {v} ELSE LongRange

(***************************************************************************)
(* State.                                                                  *)
(***************************************************************************)
VARIABLES
  fn,        \* the entry point called: "fmod", "remainder", "remquo", "gamma",
             \* "atanh"
  pc,        \* position in the call
  x, y,      \* the operands
  rnd,       \* the caller's rounding mode
  rem,       \* rem1: the destination
  quo,       \* rem1: *quo (meaningful when quo is not null)
  mx, my, r, \* rem1: the mpz temporaries
  ex, ey,    \* rem1: the scaled exponents
  q_is_odd, sign, \* rem1: locals
  gamma,     \* gamma: the destination
  realprec, prec_nec, Prec, A, N, good, compared, \* gamma: locals
  trials,    \* gamma, atanh: the trials of the escalation loop begun so far
  xt,        \* atanh: the operand (x is the copy of its absolute value)
  t,         \* atanh: the working value
  Nt, err,   \* atanh: the working precision, the error bound
  dst,       \* copysign: the destination z; div: q; set_q: f
  arg,       \* fits: the number f tested
  rat,       \* set_q: the rational q, its numerator and denominator
  fits,      \* fits: the int returned
  s1, s2,    \* strcasecmp: the strings, as the bytes before the terminator
  result,    \* strcasecmp: the int returned
  inex,      \* the int returned
  inits,     \* per temporary, the number of times it was initialised
  clears     \* per temporary, the number of times it was cleared

rem1vars  == <<y, rem, quo, mx, my, r, ex, ey, q_is_odd, sign>>
gammavars == <<gamma, realprec, prec_nec, Prec, A, N, good, compared, trials>>
atanhvars == <<xt, t, Nt, err>>
miscvars == <<dst, arg, rat, fits>>
strvars == <<s1, s2, result>>
vars == <<fn, pc, x, rnd, rem1vars, gammavars, atanhvars, miscvars, strvars,
          inex, inits, clears>>

\* the temporaries of the functions modelled
Rem1Temps  == {"mx", "my", "r"}
GammaTemps == {"xp", "tmp", "tmp2", "the_pi", "product", "GammaTrial", "Csin"}
AtanhTemps == {"x", "t", "te", "ti"}
Temps == Rem1Temps \cup GammaTemps \cup AtanhTemps \cup {"n", "d"}
NoCounts == [tmp \in Temps |-> 0]
\* mpz_init / mpfr_init2, and mpz_clear / mpfr_clear, of the temporaries ts
InitTemps(cnt, ts) ==
  [tmp \in Temps |-> IF tmp \in ts THEN cnt[tmp] + 1 ELSE cnt[tmp]]
ClearTemps(cnt, ts) ==
  [tmp \in Temps |-> IF tmp \in ts THEN cnt[tmp] + 1 ELSE cnt[tmp]]
\* the temporaries initialised and not yet cleared
live == { tmp \in Temps : inits[tmp] > clears[tmp] }

(***************************************************************************)
(* The operands the model draws.                                           *)
(***************************************************************************)
Signs == {1, -1}
RegularIn ==
  { Reg(PrecIn, s, mant, e) :
      s \in Signs, mant \in 2^(PrecIn - 1) .. 2^PrecIn - 1,
      e \in 0 .. ExpSpan }
SingularIn ==
  {Nan(PrecIn, 1)} \cup { Inf(PrecIn, s) : s \in Signs }
                   \cup { Zero(PrecIn, s) : s \in Signs }
NumbersIn == RegularIn \cup SingularIn
\* precisions of the destination: the smallest, and one that holds every
\* remainder exactly
PrecsRem == {MPFR_PREC_MIN, PrecIn + 1}

(***************************************************************************)
(* mpfr_rem1                                                               *)
(***************************************************************************)
Rem1Fns == {"fmod", "remainder", "remquo"}
\* the callers: mpfr_fmod passes GMP_RNDZ, the two others GMP_RNDN
rnd_q   == IF fn = "fmod" THEN "RNDZ" ELSE "RNDN"
\* only mpfr_remquo passes a quotient pointer
quoPtr  == fn = "remquo"
signx   == MPFR_SIGN(x)

\* the variables of mpfr_gamma while another function runs
GammaIdle ==
  /\ gamma = Nan(MPFR_PREC_MIN, 1)
  /\ realprec = 0 /\ prec_nec = 0 /\ Prec = 0 /\ A = 0 /\ N = 0
  /\ good = 0 /\ compared = 0 /\ trials = 0

StrIdle == s1 = <<>> /\ s2 = <<>> /\ result = 0

MiscIdle ==
  /\ dst = Nan(MPFR_PREC_MIN, 1) /\ arg = Nan(MPFR_PREC_MIN, 1)
  /\ rat = [num |-> 0, den |-> 1] /\ fits = 0

AtanhIdle ==
  /\ xt = Nan(PrecIn, 1) /\ t = Nan(MPFR_PREC_MIN, 1) /\ Nt = 0 /\ err = 0

InitRem ==
  /\ fn \in Rem1Fns
  /\ pc = "call"
  /\ x \in NumbersIn
  /\ y \in NumbersIn
  /\ rnd \in RndModes
  /\ rem \in { Nan(p, 1) : p \in PrecsRem }
  /\ quo = IF fn = "remquo" THEN 1 ELSE 0
  /\ mx = 0 /\ my = 0 /\ r = 0 /\ ex = 0 /\ ey = 0
  /\ q_is_odd = 0 /\ sign = 0 /\ inex = 0
  /\ inits = NoCounts /\ clears = NoCounts
  /\ GammaIdle /\ AtanhIdle /\ MiscIdle
  /\ StrIdle

\* a variant of IsNanCase without the test of a zero y
IsNanCase_NoZeroY(a, b) ==
  MPFR_IS_NAN(a) \/ MPFR_IS_NAN(b) \/ MPFR_IS_INF(a)
\* lines 67-68: the operands for which the result is NaN
IsNanCase(a, b) ==
  MPFR_IS_NAN(a) \/ MPFR_IS_NAN(b) \/ MPFR_IS_INF(a) \/ MPFR_IS_ZERO(b)

\* lines 65-73
Rem1Nan ==
  /\ pc = "call" /\ fn \in Rem1Fns
  /\ MPFR_IS_SINGULAR(x) \/ MPFR_IS_SINGULAR(y)
  /\ IsNanCase(x, y)
  /\ rem' = MPFR_SET_NAN(rem)
  /\ inex' = 0
  /\ pc' = "done"
  /\ UNCHANGED <<gammavars, atanhvars, miscvars>>
  /\ UNCHANGED <<fn, x, y, rnd, quo, mx, my, r, ex, ey, q_is_odd, sign, inits, clears>>
  /\ UNCHANGED strvars

\* lines 74-81
Rem1Copy ==
  /\ pc = "call" /\ fn \in Rem1Fns
  /\ MPFR_IS_SINGULAR(x) \/ MPFR_IS_SINGULAR(y)
  /\ ~IsNanCase(x, y)
  /\ quo' = IF quoPtr THEN 0 ELSE quo
  /\ rem' = mpfr_set(rem, x, rnd).num
  /\ inex' = mpfr_set(rem, x, rnd).inex
  /\ pc' = "done"
  /\ UNCHANGED <<gammavars, atanhvars, miscvars>>
  /\ UNCHANGED <<fn, x, y, rnd, mx, my, r, ex, ey, q_is_odd, sign, inits, clears>>
  /\ UNCHANGED strvars

\* line 97: the sign of the quotient
QuoSign(a, b) == IF MPFR_SIGN(a) = MPFR_SIGN(b) THEN 1 ELSE -1

\* lines 86-107: the temporaries, |mx|, |my| and the removal of the
\* trailing zeros of my
Rem1Setup ==
  /\ pc = "call" /\ fn \in Rem1Fns
  /\ ~(MPFR_IS_SINGULAR(x) \/ MPFR_IS_SINGULAR(y))
  /\ inits' = InitTemps(inits, Rem1Temps)
  /\ ex' = mpfr_get_exp(x)
  /\ mx' = Abs(mpfr_get_z(x))
  /\ sign' = QuoSign(x, y)
  /\ q_is_odd' = 0
  /\ LET my0 == Abs(mpfr_get_z(y))
         k   == mpz_scan1(my0)
     IN /\ ey' = mpfr_get_exp(y) + k
        /\ my' = my0 \div 2^k
  /\ pc' = "setup"
  /\ UNCHANGED <<gammavars, atanhvars, miscvars>>
  /\ UNCHANGED <<fn, x, y, rnd, rem, quo, r, inex, clears>>
  /\ UNCHANGED strvars

\* line 124-125: the low WANTED_BITS bits of the quotient, as a long
mpz_tdiv_r_2exp(z, n) == Sgn(z) * (Abs(z) % 2^n)

\* lines 109-127: ex <= ey, the division is done on the integers
Rem1DivSmall ==
  /\ pc = "setup"
  /\ ex <= ey
  /\ LET my1 == my * 2^(ey - ex)
         q   == IF rnd_q = "RNDZ" THEN mpz_tdiv_q(mx, my1)
                                  ELSE mpz_fdiv_q(mx, my1)
         r1  == IF rnd_q = "RNDZ" THEN mpz_tdiv_r(mx, my1)
                                  ELSE mpz_fdiv_r(mx, my1)
     IN /\ my' = my1
        /\ r' = r1
        /\ q_is_odd' = IF rnd_q = "RNDN" THEN q % 2 ELSE q_is_odd
        /\ mx' = IF quoPtr THEN mpz_tdiv_r_2exp(q, WANTED_BITS) ELSE q
        /\ quo' = IF quoPtr THEN mpz_tdiv_r_2exp(q, WANTED_BITS) ELSE quo
  /\ pc' = "divided"
  /\ UNCHANGED <<gammavars, atanhvars, miscvars>>
  /\ UNCHANGED <<fn, x, y, rnd, rem, ex, ey, sign, inex, inits, clears>>
  /\ UNCHANGED strvars

\* lines 130-142: the modulus of the reduction when ex > ey
\* a variant of ReductionModulus that reduces modulo Y, not 2Y, without quo
ReductionModulus_PlainY(Y, withQuo, rq) ==
  IF withQuo THEN Y * 2^WANTED_BITS ELSE Y
ReductionModulus(Y, withQuo, rq) ==
  IF withQuo THEN Y * 2^WANTED_BITS ELSE Y * 2

\* lines 144-147: r = mx * 2^(ex - ey) mod modulus
ReducedX(mant, e, modulus) == (mpz_powm_ui(2, e, modulus) * mant) % modulus

\* lines 128-170: ex > ey
Rem1DivLarge ==
  /\ pc = "setup"
  /\ ex > ey
  /\ LET modulus == ReductionModulus(my, quoPtr, rnd_q)
         r0      == ReducedX(mx, ex - ey, modulus)
     IN IF quoPtr
        THEN /\ mx' = mpz_tdiv_q(r0, my)
             /\ r' = mpz_tdiv_r(r0, my)
             /\ quo' = mpz_tdiv_q(r0, my)
             /\ q_is_odd' = mpz_tdiv_q(r0, my) % 2
        ELSE /\ q_is_odd' = IF rnd_q = "RNDN"
                            THEN (IF Abs(r0) >= Abs(my) THEN 1 ELSE 0)
                            ELSE q_is_odd
             /\ r' = IF rnd_q = "RNDN" /\ Abs(r0) >= Abs(my)
                     THEN r0 - my ELSE r0
             /\ UNCHANGED <<mx, quo>>
  /\ pc' = "divided"
  /\ UNCHANGED <<gammavars, atanhvars, miscvars>>
  /\ UNCHANGED <<fn, x, y, rnd, rem, my, ex, ey, sign, inex, inits, clears>>
  /\ UNCHANGED strvars

\* lines 172-173: a zero remainder
Rem1Zero ==
  /\ pc = "divided"
  /\ r = 0
  /\ rem' = mpfr_set_ui_0(rem).num
  /\ inex' = mpfr_set_ui_0(rem).inex
  /\ pc' = "rounded"
  /\ UNCHANGED <<gammavars, atanhvars, miscvars>>
  /\ UNCHANGED <<fn, x, y, rnd, quo, mx, my, r, ex, ey, q_is_odd, sign, inits, clears>>
  /\ UNCHANGED strvars

\* a variant of NeedsCorrection that rounds every tie upward
NeedsCorrection_TiesUp(r0, Y, odd, rq) ==
  LET cmp == Sgn(Abs(2 * r0) - Abs(Y))
  IN rq = "RNDN" /\ (cmp > 0 \/ (rq = "RNDN" /\ cmp = 0))
\* a variant of NeedsCorrection that compares r, not 2r, with my
NeedsCorrection_NoDoubling(r0, Y, odd, rq) ==
  LET cmp == Sgn(Abs(r0) - Abs(Y))
  IN rq = "RNDN" /\ (cmp > 0 \/ (rq = "RNDN" /\ cmp = 0 /\ odd # 0))
\* lines 180-184: whether my is subtracted from r and 1 added to the quotient
NeedsCorrection(r0, Y, odd, rq) ==
  LET cmp == Sgn(Abs(2 * r0) - Abs(Y))
  IN rq = "RNDN" /\ (cmp > 0 \/ (rq = "RNDN" /\ cmp = 0 /\ odd # 0))

\* line 195: the exponent added to that of rem
RemScale(e1, e2) == IF e1 > e2 THEN e2 ELSE e1

\* lines 174-196: a nonzero remainder
Rem1Round ==
  /\ pc = "divided"
  /\ r # 0
  /\ LET corr == NeedsCorrection(r, my, q_is_odd, rnd_q)
         r1   == IF corr THEN r - my ELSE r
         res  == mpfr_set_z(rem, r1, rnd)
     IN /\ r' = r1
        /\ IF corr /\ quoPtr /\ rnd_q = "RNDN"
           THEN quo' \in LongResults(quo + 1)
           ELSE quo' = quo
        /\ rem' = [res.num EXCEPT !.exp = @ + RemScale(ex, ey)]
        /\ inex' = res.inex
  /\ pc' = "rounded"
  /\ UNCHANGED <<gammavars, atanhvars, miscvars>>
  /\ UNCHANGED <<fn, x, y, rnd, mx, my, ex, ey, q_is_odd, sign, inits, clears>>
  /\ UNCHANGED strvars

\* a variant of ApplySignX that negates the ternary value only
ApplySignX_InexOnly(f, ix, sx) ==
  IF sx < 0 THEN [num |-> f, inex |-> -ix]
            ELSE [num |-> f, inex |-> ix]
\* lines 201-206: the sign of x is applied to rem and to the ternary value
ApplySignX(f, ix, sx) ==
  IF sx < 0 THEN [num |-> mpfr_neg(f), inex |-> -ix]
            ELSE [num |-> f, inex |-> ix]

\* lines 198-212
Rem1Finish ==
  /\ pc = "rounded"
  /\ IF quoPtr THEN quo' \in LongResults(quo * sign) ELSE quo' = quo
  /\ rem' = ApplySignX(rem, inex, signx).num
  /\ inex' = ApplySignX(rem, inex, signx).inex
  /\ clears' = ClearTemps(clears, Rem1Temps)
  /\ pc' = "done"
  /\ UNCHANGED <<gammavars, atanhvars, miscvars>>
  /\ UNCHANGED <<fn, x, y, rnd, mx, my, r, ex, ey, q_is_odd, sign, inits>>
  /\ UNCHANGED strvars

\* lines 54-212 as one function of the arguments: what a call with (withQuo)
\* or without a quotient pointer stores in the destination dest, the int it
\* returns and, past the special cases, the parity bit q_is_odd it rounds
\* the quotient with
mpfr_rem1(dest, withQuo, rq, a, b, mode) ==
  IF MPFR_IS_SINGULAR(a) \/ MPFR_IS_SINGULAR(b)
  THEN IF IsNanCase(a, b)
       THEN [num |-> MPFR_SET_NAN(dest), inex |-> 0, odd |-> 0]
       ELSE [num |-> mpfr_set(dest, a, mode).num,
             inex |-> mpfr_set(dest, a, mode).inex, odd |-> 0]
  ELSE
    LET e1  == mpfr_get_exp(a)
        X   == Abs(mpfr_get_z(a))
        Y0  == Abs(mpfr_get_z(b))
        k   == mpz_scan1(Y0)
        e2  == mpfr_get_exp(b) + k
        Y   == Y0 \div 2^k
        \* lines 109-126
        Y1  == Y * 2^(e2 - e1)
        qS  == IF rq = "RNDZ" THEN mpz_tdiv_q(X, Y1) ELSE mpz_fdiv_q(X, Y1)
        rS  == IF rq = "RNDZ" THEN mpz_tdiv_r(X, Y1) ELSE mpz_fdiv_r(X, Y1)
        oS  == IF rq = "RNDN" THEN qS % 2 ELSE 0
        \* lines 127-170
        r0  == ReducedX(X, e1 - e2, ReductionModulus(Y, withQuo, rq))
        oL  == IF withQuo THEN mpz_tdiv_q(r0, Y) % 2
               ELSE IF rq = "RNDN" /\ Abs(r0) >= Abs(Y) THEN 1 ELSE 0
        rL  == IF withQuo THEN mpz_tdiv_r(r0, Y)
               ELSE IF rq = "RNDN" /\ Abs(r0) >= Abs(Y) THEN r0 - Y ELSE r0
        small == e1 <= e2
        YY  == IF small THEN Y1 ELSE Y
        odd == IF small THEN oS ELSE oL
        r1  == IF small THEN rS ELSE rL
        \* lines 172-196
        r2  == IF NeedsCorrection(r1, YY, odd, rq) THEN r1 - YY ELSE r1
        set == mpfr_set_z(dest, r2, mode)
        st  == IF r1 = 0 THEN mpfr_set_ui_0(dest)
               ELSE [num |-> [set.num EXCEPT !.exp = @ + RemScale(e1, e2)],
                     inex |-> set.inex]
        fin == ApplySignX(st.num, st.inex, MPFR_SIGN(a))
    IN [num |-> fin.num, inex |-> fin.inex, odd |-> odd]
\* lines 214-225: the two entry points that round the quotient to nearest
mpfr_remainder(dest, a, b, mode) == mpfr_rem1(dest, FALSE, "RNDN", a, b, mode)
mpfr_remquo(dest, a, b, mode) == mpfr_rem1(dest, TRUE, "RNDN", a, b, mode)

NextRem ==
  \/ Rem1Nan
  \/ Rem1Copy
  \/ Rem1Setup
  \/ Rem1DivSmall
  \/ Rem1DivLarge
  \/ Rem1Zero
  \/ Rem1Round
  \/ Rem1Finish

SpecRem == InitRem /\ [][NextRem]_vars

(***************************************************************************)
(* mpfr_gamma                                                              *)
(***************************************************************************)
Rem1Idle ==
  /\ y = Nan(PrecIn, 1) /\ rem = Nan(MPFR_PREC_MIN, 1) /\ quo = 0
  /\ mx = 0 /\ my = 0 /\ r = 0 /\ ex = 0 /\ ey = 0
  /\ q_is_odd = 0 /\ sign = 0

\* what the destination holds before the call: NaN as mpfr_init2 leaves it,
\* or an earlier result (here 2 or -2)
DestsIn ==
  { Nan(p, s) : p \in PrecsRem, s \in Signs }
    \cup { Reg(p, s, 2^(p - 1), 2) : p \in PrecsRem, s \in Signs }
InitGamma ==
  /\ fn = "gamma"
  /\ pc = "call"
  /\ x \in NumbersIn
  /\ rnd \in RndModes
  /\ gamma \in DestsIn
  /\ realprec = 0 /\ prec_nec = 0 /\ Prec = 0 /\ A = 0 /\ N = 0
  /\ good = 0 /\ compared = 0 /\ trials = 0
  /\ inex = 0
  /\ inits = NoCounts /\ clears = NoCounts
  /\ Rem1Idle /\ AtanhIdle /\ MiscIdle
  /\ StrIdle

\* lines 71, 76, 81, 89, 215: the value every return statement returns
GammaReturnValue == 1

\* lines 68-72
GammaNan ==
  /\ pc = "call" /\ fn = "gamma"
  /\ MPFR_IS_NAN(x)
  /\ gamma' = MPFR_SET_NAN(gamma)
  /\ inex' = GammaReturnValue
  /\ pc' = "done"
  /\ UNCHANGED <<rem1vars, atanhvars, miscvars>>
  /\ UNCHANGED <<fn, x, rnd, realprec, prec_nec, Prec, A, N, good, compared,
                 trials, inits, clears>>
  /\ UNCHANGED strvars

\* lines 73-77: !MPFR_NOTZERO(x)
GammaZero ==
  /\ pc = "call" /\ fn = "gamma"
  /\ ~MPFR_IS_NAN(x)
  /\ MPFR_IS_ZERO(x)
  /\ gamma' = MPFR_SET_INF(gamma)
  /\ inex' = GammaReturnValue
  /\ pc' = "done"
  /\ UNCHANGED <<rem1vars, atanhvars, miscvars>>
  /\ UNCHANGED <<fn, x, rnd, realprec, prec_nec, Prec, A, N, good, compared,
                 trials, inits, clears>>
  /\ UNCHANGED strvars

\* lines 78-82
GammaInf ==
  /\ pc = "call" /\ fn = "gamma"
  /\ ~MPFR_IS_NAN(x) /\ ~MPFR_IS_ZERO(x)
  /\ MPFR_IS_INF(x)
  /\ gamma' = MPFR_SET_INF(gamma)
  /\ inex' = GammaReturnValue
  /\ pc' = "done"
  /\ UNCHANGED <<rem1vars, atanhvars, miscvars>>
  /\ UNCHANGED <<fn, x, rnd, realprec, prec_nec, Prec, A, N, good, compared,
                 trials, inits, clears>>
  /\ UNCHANGED strvars

\* a variant of GammaOne that stores 0, not 1
GammaOne_StoresZero ==
  /\ pc = "call" /\ fn = "gamma"
  /\ ~MPFR_IS_SINGULAR(x)
  /\ mpfr_cmp_ui(x, 1) = 0
  /\ compared' = 0
  /\ gamma' = mpfr_set_ui_0(gamma).num
  /\ inex' = GammaReturnValue
  /\ pc' = "done"
  /\ UNCHANGED <<rem1vars, atanhvars, miscvars>>
  /\ UNCHANGED <<fn, x, rnd, realprec, prec_nec, Prec, A, N, good, trials,
                 inits, clears>>
  /\ UNCHANGED strvars
\* lines 84-90: x = 1
GammaOne ==
  /\ pc = "call" /\ fn = "gamma"
  /\ ~MPFR_IS_SINGULAR(x)
  /\ mpfr_cmp_ui(x, 1) = 0
  /\ compared' = 0
  /\ gamma' = mpfr_set_ui_1(gamma).num
  /\ inex' = GammaReturnValue
  /\ pc' = "done"
  /\ UNCHANGED <<rem1vars, atanhvars, miscvars>>
  /\ UNCHANGED <<fn, x, rnd, realprec, prec_nec, Prec, A, N, good, trials,
                 inits, clears>>
  /\ UNCHANGED strvars

\* line 91: the precision the escalation starts from
InitialRealprec(prec_gamma) == prec_gamma + 10

\* lines 84-91
GammaStart ==
  /\ pc = "call" /\ fn = "gamma"
  /\ ~MPFR_IS_SINGULAR(x)
  /\ mpfr_cmp_ui(x, 1) # 0
  /\ compared' = mpfr_cmp_ui(x, 1)
  /\ realprec' = InitialRealprec(gamma.prec)
  /\ pc' = "loop"
  /\ UNCHANGED <<rem1vars, atanhvars, miscvars>>
  /\ UNCHANGED <<fn, x, rnd, gamma, prec_nec, Prec, A, N, good, trials, inex,
                 inits, clears>>
  /\ UNCHANGED strvars

\* lines 95-102
PrecNec(cmp, rp) == IF cmp = -1 THEN 2 + rp ELSE rp
\* lines 103-104: A = (int) (prec_nec * 0.38 - 0.5)
SeriesA(pn) == (38 * pn - 50) \div 100
\* line 114: (long) ceil (1.84 * A)
EstimatedCancel(a) == (184 * a + 99) \div 100
\* line 115
WorkingPrec(pn, a) == pn + EstimatedCancel(a) + 20

\* the temporaries one trial initialises (lines 118, 128-132, 181) and those
\* it clears (lines 206-210)
TrialInits(cmp) ==
  {"xp", "tmp", "tmp2", "the_pi", "product", "GammaTrial"}
    \cup (IF cmp = -1 THEN {"Csin"} ELSE {})
TrialClears == {"tmp", "tmp2", "the_pi", "product", "GammaTrial"}

\* lines 93-188: one evaluation of the series at precision Prec.  The
\* value of GammaTrial is not followed.
GammaEvaluate ==
  /\ pc = "loop" /\ good = 0
  /\ trials < MaxTrials
  /\ trials' = trials + 1
  /\ prec_nec' = PrecNec(compared, realprec)
  /\ A' = SeriesA(PrecNec(compared, realprec))
  /\ N' = SeriesA(PrecNec(compared, realprec)) - 1
  /\ Prec' = WorkingPrec(PrecNec(compared, realprec),
                         SeriesA(PrecNec(compared, realprec)))
  /\ inits' = InitTemps(inits, TrialInits(compared))
  /\ pc' = "check"
  /\ UNCHANGED <<rem1vars, atanhvars, miscvars>>
  /\ UNCHANGED <<fn, x, rnd, gamma, realprec, good, compared, inex, clears>>
  /\ UNCHANGED strvars

\* the numbers of precision p that mpfr_set (gamma, GammaTrial, rnd_mode) may
\* store: GammaTrial is regular, its value is not followed
TrialRoundings(p) ==
  { Reg(p, s, mant, 1) : s \in Signs, mant \in {2^(p - 1), 2^p - 1} }

\* lines 194-198, 206-210: mpfr_can_round accepts
GammaAccept ==
  /\ pc = "check"
  /\ gamma' \in TrialRoundings(gamma.prec)
  /\ good' = 1
  /\ clears' = ClearTemps(clears, TrialClears)
  /\ pc' = "loop"
  /\ UNCHANGED <<rem1vars, atanhvars, miscvars>>
  /\ UNCHANGED <<fn, x, rnd, realprec, prec_nec, Prec, A, N, compared, trials,
                 inex, inits>>
  /\ UNCHANGED strvars

\* a variant of NextRealprec that adds 4 less: nothing up to realprec = 16
NextRealprec_Stalls(rp) == rp + ceil_log2(rp) - 4
\* line 201: the precision of the next trial
NextRealprec(rp) == rp + ceil_log2(rp)

\* lines 199-210: mpfr_can_round rejects
GammaRetry ==
  /\ pc = "check"
  /\ realprec' = NextRealprec(realprec)
  /\ clears' = ClearTemps(clears, TrialClears)
  /\ pc' = "loop"
  /\ UNCHANGED <<rem1vars, atanhvars, miscvars>>
  /\ UNCHANGED <<fn, x, rnd, gamma, prec_nec, Prec, A, N, good, compared,
                 trials, inex, inits>>
  /\ UNCHANGED strvars

\* lines 213-215
GammaReturn ==
  /\ pc = "loop" /\ good # 0
  /\ clears' = ClearTemps(clears, {"xp"})
  /\ inex' = GammaReturnValue
  /\ pc' = "done"
  /\ UNCHANGED <<rem1vars, atanhvars, miscvars>>
  /\ UNCHANGED <<fn, x, rnd, gamma, realprec, prec_nec, Prec, A, N, good,
                 compared, trials, inits>>
  /\ UNCHANGED strvars

NextGamma ==
  \/ GammaNan
  \/ GammaZero
  \/ GammaInf
  \/ GammaOne
  \/ GammaStart
  \/ GammaEvaluate
  \/ GammaAccept
  \/ GammaRetry
  \/ GammaReturn

SpecGamma == InitGamma /\ [][NextGamma]_vars

(***************************************************************************)
(* mpfr_atanh                                                              *)
(***************************************************************************)
InitAtanh ==
  /\ fn = "atanh"
  /\ pc = "call"
  /\ xt \in NumbersIn
  /\ rnd \in RndModes
  /\ y \in DestsIn
  /\ x = Nan(PrecIn, 1)
  /\ t = Nan(MPFR_PREC_MIN, 1) /\ Nt = 0 /\ err = 0
  /\ rem = Nan(MPFR_PREC_MIN, 1) /\ quo = 0
  /\ mx = 0 /\ my = 0 /\ r = 0 /\ ex = 0 /\ ey = 0
  /\ q_is_odd = 0 /\ sign = 0
  /\ inex = 0
  /\ inits = NoCounts /\ clears = NoCounts
  /\ GammaIdle /\ MiscIdle
  /\ StrIdle

\* lines 42-46
AtanhNan ==
  /\ pc = "call" /\ fn = "atanh"
  /\ MPFR_IS_NAN(xt)
  /\ y' = MPFR_SET_NAN(y)
  /\ inex' = 0
  /\ pc' = "done"
  /\ UNCHANGED miscvars
  /\ UNCHANGED <<fn, x, rnd, rem, quo, mx, my, r, ex, ey, q_is_odd, sign,
                 gammavars, atanhvars, inits, clears>>
  /\ UNCHANGED strvars

\* lines 47-52
AtanhInf ==
  /\ pc = "call" /\ fn = "atanh"
  /\ MPFR_IS_INF(xt)
  /\ y' = MPFR_SET_SAME_SIGN(MPFR_SET_INF(y), xt)
  /\ inex' = 0
  /\ pc' = "done"
  /\ UNCHANGED miscvars
  /\ UNCHANGED <<fn, x, rnd, rem, quo, mx, my, r, ex, ey, q_is_odd, sign,
                 gammavars, atanhvars, inits, clears>>
  /\ UNCHANGED strvars

\* a variant of AtanhZero that leaves the sign field of y alone
AtanhZero_KeepsSign ==
  /\ pc = "call" /\ fn = "atanh"
  /\ MPFR_IS_ZERO(xt)
  /\ y' = MPFR_SET_ZERO(y)
  /\ inex' = 0
  /\ pc' = "done"
  /\ UNCHANGED miscvars
  /\ UNCHANGED <<fn, x, rnd, rem, quo, mx, my, r, ex, ey, q_is_odd, sign,
                 gammavars, atanhvars, inits, clears>>
  /\ UNCHANGED strvars
\* lines 53-58
AtanhZero ==
  /\ pc = "call" /\ fn = "atanh"
  /\ MPFR_IS_ZERO(xt)
  /\ y' = MPFR_SET_SAME_SIGN(MPFR_SET_ZERO(y), xt)
  /\ inex' = 0
  /\ pc' = "done"
  /\ UNCHANGED miscvars
  /\ UNCHANGED <<fn, x, rnd, rem, quo, mx, my, r, ex, ey, q_is_odd, sign,
                 gammavars, atanhvars, inits, clears>>
  /\ UNCHANGED strvars

\* lines 81-83: the working precision of the first trial
InitialNt(Nx, Ny) ==
  LET n == IF Nx > Ny THEN Nx ELSE Ny IN n + 4 + ceil_log2(n)

\* lines 65-88: the copy of |xt|, the first working precision, the three
\* working temporaries
AtanhSetup ==
  /\ pc = "call" /\ fn = "atanh"
  /\ ~MPFR_IS_SINGULAR(xt)
  /\ x' = mpfr_abs(Nan(xt.prec, 1), xt, "RNDN").num
  /\ Nt' = InitialNt(xt.prec, y.prec)
  /\ inits' = InitTemps(inits, AtanhTemps)
  /\ pc' = "loop"
  /\ UNCHANGED miscvars
  /\ UNCHANGED <<fn, xt, y, rnd, rem, quo, mx, my, r, ex, ey, q_is_odd, sign,
                 gammavars, t, err, inex, clears>>
  /\ UNCHANGED strvars

\* the mantissas of n bits a trial may leave in t: the TBits leading bits
\* free, the others 0
TrialMants(n) ==
  { 2^(n - 1) + k * 2^(n - TBits) : k \in 0 .. 2^(TBits - 1) - 1 }
\* lines 93-102: t after a trial at the precision n.  What ui_sub, add_ui,
\* div, log and div_2ui compute is not followed: for a < 1 any positive
\* number of n bits with exponent 0 or 1, for a = 1 the quotient 2/0 is
\* +Inf and so are its logarithm and t, for a > 1 the quotient is negative
\* and its logarithm is NaN.
TrialValues(a, n) ==
  CASE mpfr_cmp_ui(a, 1) < 0 ->
         { Reg(n, 1, mant, e) : mant \in TrialMants(n), e \in {0, 1} }
    [] mpfr_cmp_ui(a, 1) = 0 -> { Inf(n, 1) }
    [] mpfr_cmp_ui(a, 1) > 0 -> { Nan(n, 1) }

\* a variant of ErrorBounds that reads Nt after its increment by 10
ErrorBounds_NextNt(n, f) ==
  LET ds == IF MPFR_IS_SINGULAR(f) THEN LongRange ELSE {4 - f.exp} IN
  { (n + 10) - ((IF d > 0 THEN d ELSE 0) + 1) : d \in ds }
\* line 106: err = Nt - (MAX (4 - MPFR_GET_EXP (t), 0) + 1).  The exponent
\* field of a singular t holds a sentinel next to the least mp_exp_t
\* (mpfr.h 692-694), 4 minus it overflows: any value may come out.
ErrorBounds(n, f) ==
  LET ds == IF MPFR_IS_SINGULAR(f) THEN LongRange ELSE {4 - f.exp} IN
  { n - ((IF d > 0 THEN d ELSE 0) + 1) : d \in ds }

\* lines 93-109: one trial
AtanhEvaluate ==
  /\ pc = "loop" /\ fn = "atanh"
  /\ Nt <= MaxNt
  /\ trials' = trials + 1
  /\ t' \in TrialValues(x, Nt)
  /\ err' \in ErrorBounds(Nt, t')
  /\ Nt' = Nt + 10
  /\ pc' = "check"
  /\ UNCHANGED miscvars
  /\ UNCHANGED <<fn, x, xt, y, rnd, rem, quo, mx, my, r, ex, ey, q_is_odd,
                 sign, gamma, realprec, prec_nec, Prec, A, N, good, compared,
                 inex, inits, clears>>
  /\ UNCHANGED strvars

\* a variant of CanRoundPrec without the extra bit of rounding to nearest
CanRoundPrec_NoExtraBit(Ny, rnd_mode) == Ny
\* lines 113-114: the precision mpfr_can_round is asked about
CanRoundPrec(Ny, rnd_mode) == Ny + (IF rnd_mode = "RNDN" THEN 1 ELSE 0)
\* lines 112-115: the loop goes on
AtanhAgain ==
  \/ err < 0
  \/ ~mpfr_can_round(t, err, "RNDN", "RNDZ", CanRoundPrec(y.prec, rnd))
  \/ MPFR_IS_ZERO(t)

AtanhRetry ==
  /\ pc = "check" /\ fn = "atanh"
  /\ AtanhAgain
  /\ pc' = "loop"
  /\ UNCHANGED miscvars
  /\ UNCHANGED <<fn, x, rnd, rem1vars, gammavars, atanhvars, inex, inits,
                 clears>>
  /\ UNCHANGED strvars

\* a variant of AtanhResult that sets the sign after the rounding
AtanhResult_SignLast(w, a, rnd_mode, dest) ==
  LET res == mpfr_set(dest, w, rnd_mode) IN
  [res EXCEPT !.num = IF a.sign < 0 THEN MPFR_CHANGE_SIGN(res.num)
                                    ELSE res.num]
\* lines 117-120: the sign of xt is given to t, then t is rounded into y
AtanhResult(w, a, rnd_mode, dest) ==
  mpfr_set(dest, IF a.sign < 0 THEN MPFR_CHANGE_SIGN(w) ELSE w, rnd_mode)

\* the temporaries released without the operand's copy x
AtanhClears_NoX == {"t", "ti", "te"}
\* lines 122-126: mpfr_clear of t, ti, te and x
AtanhClears == {"t", "ti", "te", "x"}

\* lines 117-128
AtanhFinish ==
  /\ pc = "check" /\ fn = "atanh"
  /\ ~AtanhAgain
  /\ t' = IF xt.sign < 0 THEN MPFR_CHANGE_SIGN(t) ELSE t
  /\ y' = AtanhResult(t, xt, rnd, y).num
  /\ inex' = AtanhResult(t, xt, rnd, y).inex
  /\ clears' = ClearTemps(clears, AtanhClears)
  /\ pc' = "done"
  /\ UNCHANGED miscvars
  /\ UNCHANGED <<fn, x, xt, rnd, rem, quo, mx, my, r, ex, ey, q_is_odd, sign,
                 gammavars, Nt, err, inits>>
  /\ UNCHANGED strvars

NextAtanh ==
  \/ AtanhNan
  \/ AtanhInf
  \/ AtanhZero
  \/ AtanhSetup
  \/ AtanhEvaluate
  \/ AtanhRetry
  \/ AtanhFinish

SpecAtanh == InitAtanh /\ [][NextAtanh]_vars
\* lines 93-109 past the precisions followed, for |xt| >= 1: 1 - x is exact
\* at every precision above Nx, so t is again +Inf or NaN.  Nt and the count
\* of trials are no longer followed: Nt stands for every precision above
\* MaxNt.
AtanhEvaluateFar ==
  /\ pc = "loop" /\ fn = "atanh"
  /\ Nt > MaxNt
  /\ mpfr_cmp_ui(x, 1) >= 0
  /\ t' \in TrialValues(x, Nt)
  /\ err' \in ErrorBounds(Nt, t')
  /\ pc' = "check"
  /\ UNCHANGED miscvars
  /\ UNCHANGED <<fn, x, xt, y, rnd, rem, quo, mx, my, r, ex, ey, q_is_odd,
                 sign, gammavars, Nt, inex, inits, clears>>
  /\ UNCHANGED strvars

NextAtanhLive ==
  \/ NextAtanh
  \/ AtanhEvaluateFar
\* a call that can take a step takes one
SpecAtanhLive == InitAtanh /\ [][NextAtanhLive]_vars /\ WF_vars(NextAtanhLive)

\* a call of mpfr_fmod, mpfr_remainder, mpfr_remquo or mpfr_atanh
InitRemAtanh == InitRem \/ InitAtanh
NextRemAtanh == NextRem \/ NextAtanh
SpecRemAtanh == InitRemAtanh /\ [][NextRemAtanh]_vars

(***************************************************************************)
(* mpfr_copysign: the function of copysign.c and the macro of mpfr.h       *)
(***************************************************************************)
CopysignFns == {"copysign", "copysign_macro"}
\* precisions of z: below, at and above the precision of x
PrecsCopy == {MPFR_PREC_MIN, PrecIn, PrecIn + 1}
\* the numbers y gives its sign from, of every kind and sign
SignsIn ==
  { Reg(PrecIn, s, 2^(PrecIn - 1), 1) : s \in Signs }
    \cup { Zero(PrecIn, s) : s \in Signs }
    \cup { Inf(PrecIn, s) : s \in Signs } \cup { Nan(PrecIn, s) : s \in Signs }

InitCopysign ==
  /\ fn \in CopysignFns
  /\ pc = "call"
  /\ x \in NumbersIn
  /\ y \in SignsIn
  /\ rnd \in RndModes
  /\ dst \in { Nan(p, 1) : p \in PrecsCopy }
  /\ arg = Nan(MPFR_PREC_MIN, 1) /\ rat = [num |-> 0, den |-> 1] /\ fits = 0
  /\ rem = Nan(MPFR_PREC_MIN, 1) /\ quo = 0
  /\ mx = 0 /\ my = 0 /\ r = 0 /\ ex = 0 /\ ey = 0
  /\ q_is_odd = 0 /\ sign = 0
  /\ inex = 0
  /\ inits = NoCounts /\ clears = NoCounts
  /\ GammaIdle /\ AtanhIdle
  /\ StrIdle

\* a variant of mpfr_copysign that takes the sign of x
mpfr_copysign_SignOfX(c, a, b, rnd_mode) == mpfr_set4(c, a, rnd_mode, MPFR_SIGN(a))
\* copysign.c, lines 34-38
mpfr_copysign(c, a, b, rnd_mode) == mpfr_set4(c, a, rnd_mode, MPFR_SIGN(b))
\* mpfr.h, line 744: #define mpfr_copysign(a,b,c,r) mpfr_set4(a,b,r,MPFR_SIGN(c))
mpfr_copysign_macro(a, b, c, rr) == mpfr_set4(a, b, rr, MPFR_SIGN(c))

CopysignFunction ==
  /\ pc = "call" /\ fn = "copysign"
  /\ dst' = mpfr_copysign(dst, x, y, rnd).num
  /\ inex' = mpfr_copysign(dst, x, y, rnd).inex
  /\ pc' = "done"
  /\ UNCHANGED <<fn, x, rnd, rem1vars, gammavars, atanhvars, arg, rat, fits,
                 inits, clears>>
  /\ UNCHANGED strvars

CopysignMacro ==
  /\ pc = "call" /\ fn = "copysign_macro"
  /\ dst' = mpfr_copysign_macro(dst, x, y, rnd).num
  /\ inex' = mpfr_copysign_macro(dst, x, y, rnd).inex
  /\ pc' = "done"
  /\ UNCHANGED <<fn, x, rnd, rem1vars, gammavars, atanhvars, arg, rat, fits,
                 inits, clears>>
  /\ UNCHANGED strvars

NextCopysign ==
  \/ CopysignFunction
  \/ CopysignMacro

SpecCopysign == InitCopysign /\ [][NextCopysign]_vars

(***************************************************************************)
(* src/fits_s.h, instantiated for long (mpfr_fits_slong_p)                 *)
(***************************************************************************)
MINIMUM == LONG_MIN
MAXIMUM == LONG_MAX
\* the numbers tested: of one bit more than a long has, up to twice beyond
\* its range
FitsIn ==
  { Reg(LongBits + 1, s, mant, e) :
      s \in Signs, mant \in 2^LongBits .. 2^(LongBits + 1) - 1,
      e \in 0 .. LongBits + 1 }
    \cup { Nan(LongBits + 1, 1) }
    \cup { Inf(LongBits + 1, s) : s \in Signs }
    \cup { Zero(LongBits + 1, s) : s \in Signs }

InitFits ==
  /\ fn = "fits"
  /\ pc = "call"
  /\ arg \in FitsIn
  /\ rnd \in RndModes
  /\ fits = 0
  /\ x = Nan(PrecIn, 1)
  /\ dst = Nan(MPFR_PREC_MIN, 1) /\ rat = [num |-> 0, den |-> 1]
  /\ inex = 0
  /\ inits = NoCounts /\ clears = NoCounts
  /\ Rem1Idle /\ GammaIdle /\ AtanhIdle
  /\ StrIdle

\* mpfr_cmp_si (a, i): -1, 0 or 1
mpfr_cmp_si(a, i) == Sgn(Val(a) - i * 2^ValScale)

\* a variant of the predicate that takes e = prec as fitting
mpfr_fits_slong_p_NoRounding(a, rnd_mode) ==
  IF MPFR_IS_SINGULAR(a)
  THEN IF MPFR_IS_ZERO(a) THEN 1 ELSE 0
  ELSE LET neg  == a.sign < 0
           prec == IF neg THEN BitLen(-MINIMUM) ELSE BitLen(MAXIMUM)
       IN IF a.exp <= prec THEN 1 ELSE 0
\* lines 26-86
mpfr_fits_slong_p(a, rnd_mode) ==
  IF MPFR_IS_SINGULAR(a)
  THEN IF MPFR_IS_ZERO(a) THEN 1 ELSE 0
  ELSE LET e    == a.exp
           neg  == a.sign < 0
           prec == IF neg THEN BitLen(-MINIMUM) ELSE BitLen(MAXIMUM)
           xr   == mpfr_set(Nan(prec, 1), a, rnd_mode).num
       IN CASE e < 1         -> 1
            [] e >= 1 /\ e <= prec - 1 -> 1
            [] e >= 1 /\ e >= prec + 1 -> 0
            [] OTHER ->
                 IF neg THEN IF mpfr_cmp_si(xr, MINIMUM) >= 0 THEN 1 ELSE 0
                        ELSE IF xr.exp = e THEN 1 ELSE 0

FitsCall ==
  /\ pc = "call" /\ fn = "fits"
  /\ fits' = mpfr_fits_slong_p(arg, rnd)
  /\ pc' = "done"
  /\ UNCHANGED <<fn, x, rnd, rem1vars, gammavars, atanhvars, dst, arg, rat,
                 inex, inits, clears>>
  /\ UNCHANGED strvars

NextFits == FitsCall

SpecFits == InitFits /\ [][NextFits]_vars

(***************************************************************************)
(* mpfr_div, declared in mpfr.h and exercised by tests/tdiv.c              *)
(***************************************************************************)
\* a variant of DivSpecial where 0/0 is an infinity
DivSpecial_ZeroByZeroInf(c, a, b) ==
  LET s == a.sign * b.sign IN
  CASE MPFR_IS_NAN(a) \/ MPFR_IS_NAN(b) -> MPFR_SET_NAN(c)
    [] MPFR_IS_INF(a) /\ MPFR_IS_INF(b) -> MPFR_SET_NAN(c)
    [] MPFR_IS_INF(a) /\ ~MPFR_IS_NAN(b) /\ ~MPFR_IS_INF(b) ->
         [MPFR_SET_INF(c) EXCEPT !.sign = s]
    [] MPFR_IS_INF(b) /\ ~MPFR_IS_NAN(a) /\ ~MPFR_IS_INF(a) ->
         [MPFR_SET_ZERO(c) EXCEPT !.sign = s]
    [] MPFR_IS_ZERO(b) /\ ~MPFR_IS_NAN(a) /\ ~MPFR_IS_INF(a) ->
         [MPFR_SET_INF(c) EXCEPT !.sign = s]
    [] OTHER -> [MPFR_SET_ZERO(c) EXCEPT !.sign = s]
\* the quotient when an operand is singular (tdiv.c, check_nan): NaN from a
\* NaN operand, Inf/Inf and 0/0; otherwise an infinity from an infinite
\* dividend or a zero divisor, a zero from an infinite divisor or a zero
\* dividend, of the sign of the product
DivSpecial(c, a, b) ==
  LET s == a.sign * b.sign IN
  CASE MPFR_IS_NAN(a) \/ MPFR_IS_NAN(b) -> MPFR_SET_NAN(c)
    [] MPFR_IS_INF(a) /\ MPFR_IS_INF(b) -> MPFR_SET_NAN(c)
    [] MPFR_IS_ZERO(a) /\ MPFR_IS_ZERO(b) -> MPFR_SET_NAN(c)
    [] MPFR_IS_INF(a) /\ ~MPFR_IS_NAN(b) /\ ~MPFR_IS_INF(b) ->
         [MPFR_SET_INF(c) EXCEPT !.sign = s]
    [] MPFR_IS_INF(b) /\ ~MPFR_IS_NAN(a) /\ ~MPFR_IS_INF(a) ->
         [MPFR_SET_ZERO(c) EXCEPT !.sign = s]
    [] MPFR_IS_ZERO(b) /\ ~MPFR_IS_NAN(a) /\ ~MPFR_IS_SINGULAR(a) ->
         [MPFR_SET_INF(c) EXCEPT !.sign = s]
    [] OTHER -> [MPFR_SET_ZERO(c) EXCEPT !.sign = s]

\* mpfr_div (c, a, b, rnd): a / b rounded to the precision of c.  For regular
\* operands the quotient of the mantissas is taken to PREC(c) + 2 bits or
\* more, with one more bit telling whether anything is left.
mpfr_div(c, a, b, rnd_mode) ==
  IF MPFR_IS_SINGULAR(a) \/ MPFR_IS_SINGULAR(b)
  THEN [num |-> DivSpecial(c, a, b), inex |-> 0]
  ELSE LET s   == a.sign * b.sign
           k   == c.prec + 2 + b.prec
           qt  == (a.m * 2^k) \div b.m
           mag == 2 * qt + (IF (a.m * 2^k) % b.m = 0 THEN 0 ELSE 1)
           rr  == RoundRaw(mag, c.prec, rnd_mode, s)
       IN [num |-> Reg(c.prec, s, rr.m,
                       BitLen(mag) - 1 - k + (a.exp - a.prec)
                         - (b.exp - b.prec) + rr.carry),
           inex |-> rr.inex]

InitDiv ==
  /\ fn = "div"
  /\ pc = "call"
  /\ x \in NumbersIn
  /\ y \in NumbersIn
  /\ rnd \in RndModes
  /\ dst \in { Nan(p, 1) : p \in PrecsRem }
  /\ arg = Nan(MPFR_PREC_MIN, 1) /\ rat = [num |-> 0, den |-> 1] /\ fits = 0
  /\ rem = Nan(MPFR_PREC_MIN, 1) /\ quo = 0
  /\ mx = 0 /\ my = 0 /\ r = 0 /\ ex = 0 /\ ey = 0
  /\ q_is_odd = 0 /\ sign = 0
  /\ inex = 0
  /\ inits = NoCounts /\ clears = NoCounts
  /\ GammaIdle /\ AtanhIdle
  /\ StrIdle

DivCall ==
  /\ pc = "call" /\ fn = "div"
  /\ dst' = mpfr_div(dst, x, y, rnd).num
  /\ inex' = mpfr_div(dst, x, y, rnd).inex
  /\ pc' = "done"
  /\ UNCHANGED <<fn, x, rnd, rem1vars, gammavars, atanhvars, arg, rat, fits,
                 inits, clears>>
  /\ UNCHANGED strvars

NextDiv == DivCall

SpecDiv == InitDiv /\ [][NextDiv]_vars

(***************************************************************************)
(* mpfr_set_q                                                              *)
(***************************************************************************)
\* the numerators and denominators go up to QMax
QMax == 2^PrecIn - 1
RationalsIn == [num : -QMax .. QMax, den : 1 .. QMax]
SetQTemps == {"n", "d"}

InitSetQ ==
  /\ fn = "set_q"
  /\ pc = "call"
  /\ rat \in RationalsIn
  /\ rnd \in RndModes
  /\ dst \in DestsIn
  /\ x = Nan(PrecIn, 1)
  /\ arg = Nan(MPFR_PREC_MIN, 1) /\ fits = 0
  /\ inex = 0
  /\ inits = NoCounts /\ clears = NoCounts
  /\ Rem1Idle /\ GammaIdle /\ AtanhIdle
  /\ StrIdle

\* mpz_sizeinbase (z, 2) of a nonzero z
mpz_sizeinbase2(v) == BitLen(Abs(v))

\* lines 45-49
SetQZero ==
  /\ pc = "call" /\ fn = "set_q"
  /\ rat.num = 0
  /\ dst' = MPFR_SET_ZERO(dst)
  /\ inex' = 0
  /\ pc' = "done"
  /\ UNCHANGED <<fn, x, rnd, rem1vars, gammavars, atanhvars, arg, rat, fits,
                 inits, clears>>
  /\ UNCHANGED strvars

\* lines 52, 54: the precisions mpfr_init2 is called with
SetQPrecs(qq) == {mpz_sizeinbase2(qq.num), mpz_sizeinbase2(qq.den)}

\* lines 52-54: mpfr_init2 with a precision below MPFR_PREC_MIN is outside
\* the precisions of the library; one outcome is that the call does not
\* return
SetQInitFails ==
  /\ pc = "call" /\ fn = "set_q"
  /\ rat.num # 0
  /\ \E p \in SetQPrecs(rat) : p < MPFR_PREC_MIN
  /\ inits' = InitTemps(inits, {"n"})
  /\ pc' = "abort"
  /\ UNCHANGED <<fn, x, rnd, rem1vars, gammavars, atanhvars, miscvars, inex,
                 clears>>
  /\ UNCHANGED strvars

\* lines 51-59: the other outcome, and the only one when both precisions
\* are precisions of the library
SetQDivide ==
  /\ pc = "call" /\ fn = "set_q"
  /\ rat.num # 0
  /\ LET n == mpfr_set_z(Nan(mpz_sizeinbase2(rat.num), 1), rat.num, "RNDZ").num
         d == mpfr_set_z(Nan(mpz_sizeinbase2(rat.den), 1), rat.den, "RNDZ").num
     IN /\ dst' = mpfr_div(dst, n, d, rnd).num
        /\ inex' = mpfr_div(dst, n, d, rnd).inex
  /\ inits' = InitTemps(inits, SetQTemps)
  /\ clears' = ClearTemps(clears, SetQTemps)
  /\ pc' = "done"
  /\ UNCHANGED <<fn, x, rnd, rem1vars, gammavars, atanhvars, arg, rat, fits>>
  /\ UNCHANGED strvars

NextSetQ ==
  \/ SetQZero
  \/ SetQInitFails
  \/ SetQDivide

SpecSetQ == InitSetQ /\ [][NextSetQ]_vars

(***************************************************************************)
(* mpfr_strcasecmp                                                         *)
(***************************************************************************)
\* the bytes of the strings: 'A', 'B', 'a', 'b' and one above 127
Bytes == {65, 66, 97, 98, 200}
RECURSIVE StringsUpTo(_)
StringsUpTo(n) ==
  IF n = 0 THEN {<<>>}
  ELSE StringsUpTo(n - 1)
         \cup { Append(w, c) : w \in { v \in StringsUpTo(n - 1) : Len(v) = n - 1 },
                               c \in Bytes }
StringsIn == StringsUpTo(MaxLen)
\* "strcasecmp_same": s1 and s2 are the same pointer
StrFns == {"strcasecmp", "strcasecmp_same"}

InitStr ==
  /\ fn \in StrFns
  /\ pc = "call"
  /\ s1 \in StringsIn
  /\ s2 \in StringsIn
  /\ fn = "strcasecmp_same" => s1 = s2
  /\ result = 0
  /\ x = Nan(PrecIn, 1) /\ rnd = "RNDN"
  /\ inex = 0
  /\ inits = NoCounts /\ clears = NoCounts
  /\ Rem1Idle /\ GammaIdle /\ AtanhIdle /\ MiscIdle

\* tolower of <ctype.h> in the C locale
tolower(c) == IF c >= 65 /\ c <= 90 THEN c + 32 ELSE c
\* *p for p at the i-th byte of w: the terminator after the last byte
ByteAt(w, i) == IF i <= Len(w) THEN w[i] ELSE 0
\* an unsigned char read as a signed char
AsSignedChar(c) == IF c >= 128 THEN c - 256 ELSE c

\* a variant of the loop that compares the bytes as signed char
RECURSIVE StrLoop_SignedChar(_, _, _)
StrLoop_SignedChar(a, b, i) ==
  LET c1 == AsSignedChar(tolower(ByteAt(a, i)))
      c2 == AsSignedChar(tolower(ByteAt(b, i)))
  IN IF c1 # 0 /\ c1 = c2 THEN StrLoop_SignedChar(a, b, i + 1) ELSE c1 - c2
\* lines 47-58: the do-while loop from the i-th bytes on, and the return
RECURSIVE StrLoop(_, _, _)
StrLoop(a, b, i) ==
  LET c1 == tolower(ByteAt(a, i))
      c2 == tolower(ByteAt(b, i))
  IN IF c1 # 0 /\ c1 = c2 THEN StrLoop(a, b, i + 1) ELSE c1 - c2

\* lines 37-60
mpfr_strcasecmp(a, b, same) == IF same THEN 0 ELSE StrLoop(a, b, 1)

StrCall ==
  /\ pc = "call" /\ fn \in StrFns
  /\ result' = mpfr_strcasecmp(s1, s2, fn = "strcasecmp_same")
  /\ pc' = "done"
  /\ UNCHANGED <<fn, x, rnd, rem1vars, gammavars, atanhvars, miscvars, s1, s2,
                 inex, inits, clears>>

NextStr == StrCall

SpecStr == InitStr /\ [][NextStr]_vars

(***************************************************************************)
(* Exact values, for the properties.                                       *)
(***************************************************************************)
\* the p-bit numbers next to a regular f, away from and toward zero
NextAway(f) == IF f.m + 1 = 2^f.prec
               THEN [f EXCEPT !.m = 2^(f.prec - 1), !.exp = f.exp + 1]
               ELSE [f EXCEPT !.m = f.m + 1]
NextToZero(f) == IF f.m = 2^(f.prec - 1)
                 THEN [f EXCEPT !.m = 2^f.prec - 1, !.exp = f.exp - 1]
                 ELSE [f EXCEPT !.m = f.m - 1]
NextAbove(f) == IF f.sign > 0 THEN NextAway(f) ELSE NextToZero(f)
NextBelow(f) == IF f.sign > 0 THEN NextToZero(f) ELSE NextAway(f)
WellFormed(f) ==
  f.kind = "reg" => f.m \in 2^(f.prec - 1) .. 2^f.prec - 1

\* f is the exact value v (a multiple of 2^(-ValScale), v # 0) rounded to the
\* precision of f in the direction rnd
RoundedDown(f, v) == Val(f) <= v /\ v < Val(NextAbove(f))
RoundedUp(f, v)   == Val(NextBelow(f)) < v /\ v <= Val(f)
RoundedNearest(f, v) ==
  \/ Val(f) = v
  \/ /\ Val(f) < v
     /\ LET d == v - Val(f)
            g == Val(NextAbove(f)) - v
        IN d < g \/ (d = g /\ f.m % 2 = 0)
  \/ /\ Val(f) > v
     /\ LET d == Val(f) - v
            g == v - Val(NextBelow(f))
        IN d < g \/ (d = g /\ f.m % 2 = 0)
IsRounding(f, v, mode) ==
  /\ f.kind = "reg"
  /\ WellFormed(f)
  /\ CASE mode = "RNDD" -> RoundedDown(f, v)
       [] mode = "RNDU" -> RoundedUp(f, v)
       [] mode = "RNDZ" -> IF v > 0 THEN RoundedDown(f, v) ELSE RoundedUp(f, v)
       [] mode = "RNDA" -> IF v > 0 THEN RoundedUp(f, v) ELSE RoundedDown(f, v)
       [] mode = "RNDN" -> RoundedNearest(f, v)

\* v is exactly a p-bit number
Representable(v, p) ==
  v = 0 \/ BitLen(Abs(v) \div 2^mpz_scan1(Abs(v))) <= p

\* the integer quotients of x / y, defined by what they are
QRange == -(2^(ExpSpan + 1)) .. 2^(ExpSpan + 1)
IsTruncQ(q, a, b) ==
  /\ Abs(q * b) <= Abs(a)
  /\ Abs(a) - Abs(q * b) < Abs(b)
  /\ q * a * b >= 0
IsNearestQ(n, a, b) ==
  \A k \in QRange :
    \/ Abs(a - n * b) < Abs(a - k * b)
    \/ Abs(a - n * b) = Abs(a - k * b) /\ (k = n \/ n % 2 = 0)
TruncQ   == CHOOSE q \in QRange : IsTruncQ(q, Val(x), Val(y))
NearestQ == CHOOSE n \in QRange : IsNearestQ(n, Val(x), Val(y))
ExactQ   == IF fn = "fmod" THEN TruncQ ELSE NearestQ
ExactRem == Val(x) - ExactQ * Val(y)

Regular(f) == f.kind = "reg"
\* a call of one of the three entry points on finite nonzero operands is over
Rem1Done == pc = "done" /\ fn \in Rem1Fns /\ Regular(x) /\ Regular(y)
\* the exact remainder held in r once the quotient is settled
RExact == r * 2^(RemScale(ex, ey) + ValScale)

(***************************************************************************)
(* Properties.                                                             *)
(***************************************************************************)

\* C1: for finite nonzero x and y and a destination wide enough, mpfr_fmod
\* stores x - q*y with q = x/y truncated toward zero, hence |rem| < |y|.
C1_FmodExact ==
  (Rem1Done /\ fn = "fmod" /\ Representable(ExactRem, rem.prec))
    => (Val(rem) = ExactRem /\ Abs(Val(rem)) < Abs(Val(y)))

\* C2: for finite nonzero x and y and a destination wide enough,
\* mpfr_remainder and mpfr_remquo store x - n*y with n the integer nearest
\* to x/y, the even one in a tie.
C2_RemainderExact ==
  (Rem1Done /\ fn # "fmod" /\ Representable(ExactRem, rem.prec))
    => Val(rem) = ExactRem
\* a tie (x/y halfway between two integers) on a negative x
C2_Witness ==
  /\ Rem1Done /\ fn = "remainder" /\ x.sign < 0
  /\ 2 * Abs(ExactRem) = Abs(Val(y))
  /\ NearestQ # 0
  /\ Val(rem) = ExactRem

\* C3: the value stored in rem is the exact remainder x - q*y rounded to the
\* precision of rem in the direction rnd.
C3_CorrectlyRounded ==
  Rem1Done =>
    IF ExactRem = 0 THEN rem.kind = "zero"
                    ELSE IsRounding(rem, ExactRem, rnd)

\* C4: the int returned is negative, zero or positive exactly when the value
\* stored in rem is below, equal to or above the exact remainder x - q*y.
C4_Ternary ==
  Rem1Done => Sgn(inex) = Sgn(Val(rem) - ExactRem)

\* C5: the value mpfr_remquo stores in *quo agrees in magnitude with the
\* nearest quotient n modulo 2^WANTED_BITS and has the sign of n.
C5_QuoLowBits ==
  (Rem1Done /\ fn = "remquo") =>
    /\ Abs(quo) % 2^WANTED_BITS = Abs(NearestQ) % 2^WANTED_BITS
    /\ quo * NearestQ >= 0

\* C6: the exact remainder of mpfr_remainder and mpfr_remquo, before the
\* final rounding, satisfies |r| <= |y| / 2.
C6_HalfBound ==
  (pc \in {"rounded", "done"} /\ fn \in {"remainder", "remquo"}
     /\ Regular(x) /\ Regular(y))
    => 2 * Abs(RExact) <= Abs(Val(y))
\* the bound is reached: |r| = |y| / 2
C6_Witness ==
  /\ pc = "rounded" /\ fn = "remquo" /\ Regular(x) /\ Regular(y)
  /\ r # 0 /\ 2 * Abs(RExact) = Abs(Val(y))

\* C7: the result of mpfr_fmod carries the sign of x, and for the three
\* entry points a zero remainder carries the sign of x with return value 0.
C7_SignLaw ==
  Rem1Done =>
    /\ fn = "fmod" => rem.sign = x.sign
    /\ rem.kind = "zero" => (rem.sign = x.sign /\ inex = 0)
\* mpfr_fmod of a negative x gives -0
C7_Witness ==
  /\ Rem1Done /\ fn = "fmod" /\ x.sign < 0
  /\ rem.kind = "zero" /\ rem.sign < 0 /\ inex = 0

\* C8: rem is NaN whenever x is NaN, y is NaN, x is infinite or y is zero,
\* and no integer temporary is created on this path.
C8_NanCases ==
  (pc = "done" /\ fn \in Rem1Fns
     /\ (x.kind = "nan" \/ y.kind = "nan" \/ x.kind = "inf" \/ y.kind = "zero"))
    => /\ rem.kind = "nan"
       /\ \A tmp \in Rem1Temps : inits[tmp] = 0
\* y is zero and x a regular number
C8_Witness ==
  /\ pc = "done" /\ fn = "fmod" /\ y.kind = "zero" /\ x.kind = "reg"
  /\ rem.kind = "nan"

\* C9: when y is infinite and x finite, or x zero and y finite nonzero, rem
\* is x rounded to the precision of rem under rnd (the sign of a zero kept),
\* mpfr_remquo stores 0 in *quo and the return value is the ternary value of
\* the copy.
C9_CopyCases ==
  (pc = "done" /\ fn \in Rem1Fns
     /\ \/ y.kind = "inf" /\ x.kind \in {"zero", "reg"}
        \/ x.kind = "zero" /\ y.kind = "reg")
    => /\ IF x.kind = "zero"
          THEN rem.kind = "zero" /\ rem.sign = x.sign
          ELSE IsRounding(rem, Val(x), rnd) /\ rem.sign = x.sign
       /\ fn = "remquo" => quo = 0
       /\ Sgn(inex) = Sgn(Val(rem) - Val(x))
\* x is rounded upward by the copy
C9_Witness ==
  /\ pc = "done" /\ fn = "remquo" /\ y.kind = "inf" /\ x.kind = "reg"
  /\ inex > 0 /\ quo = 0

\* C10: the int returned by mpfr_gamma is 0 whenever the stored result is
\* the true value exactly: for gamma(1) = 1 and for the NaN and infinity
\* results.
C10_GammaTernaryExact ==
  (pc = "done" /\ fn = "gamma"
     /\ (x.kind \in {"nan", "inf", "zero"} \/ (x.kind = "reg" /\ Val(x) = 2^ValScale)))
    => inex = 0

\* C11: mpfr_gamma returns an infinity for x = 0 and for every negative
\* integer x, without entering the series evaluation and escalation loop.
IsNegativeInteger(f) ==
  f.kind = "reg" /\ f.sign < 0 /\ Abs(Val(f)) % 2^ValScale = 0
C11_GammaPoles ==
  (fn = "gamma" /\ (x.kind = "zero" \/ IsNegativeInteger(x)))
    => /\ trials = 0
       /\ pc = "done" => gamma.kind = "inf"

\* C12: mpfr_gamma of +Inf and of -Inf is an infinity of positive sign,
\* whatever the sign field of the destination held before the call.
C12_GammaInfPositive ==
  (pc = "done" /\ fn = "gamma" /\ x.kind = "inf")
    => (gamma.kind = "inf" /\ gamma.sign = 1)

\* C13: mpfr_gamma of NaN stores NaN and mpfr_gamma of 1 stores exactly 1 at
\* every precision and rounding mode; both return before any temporary is
\* initialised and before the escalation loop starts.
C13_GammaNanOne ==
  (pc = "done" /\ fn = "gamma")
    => /\ x.kind = "nan" => gamma.kind = "nan"
       /\ (x.kind = "reg" /\ Val(x) = 2^ValScale)
            => (gamma.kind = "reg" /\ Val(gamma) = 2^ValScale)
       /\ (x.kind = "nan" \/ (x.kind = "reg" /\ Val(x) = 2^ValScale))
            => (trials = 0 /\ \A tmp \in GammaTemps : inits[tmp] = 0)
\* gamma(1) at the smallest precision, rounding upward
C13_Witness ==
  /\ pc = "done" /\ fn = "gamma" /\ x.kind = "reg" /\ Val(x) = 2^ValScale
  /\ gamma.prec = MPFR_PREC_MIN /\ rnd = "RNDU" /\ Val(gamma) = 2^ValScale

\* a call of mpfr_atanh on a finite nonzero operand has returned
AtanhDone == pc = "done" /\ fn = "atanh" /\ Regular(xt)
\* RNDU and RNDD exchanged
Mirror(mode) ==
  CASE mode = "RNDU" -> "RNDD" [] mode = "RNDD" -> "RNDU" [] OTHER -> mode

\* C14: when mpfr_atanh returns on a finite nonzero x, the call on -x with
\* the mirrored rounding mode (RNDU and RNDD exchanged, the others kept)
\* stores the negation bit for bit, and under RNDN, RNDZ and RNDA it returns
\* the negated ternary value.
C14_OddSymmetry ==
  AtanhDone =>
    LET other == AtanhResult([t EXCEPT !.sign = 1], [xt EXCEPT !.sign = -xt.sign],
                             Mirror(rnd), y)
    IN /\ y = [other.num EXCEPT !.sign = -other.num.sign]
       /\ rnd \in {"RNDN", "RNDZ", "RNDA"} => inex = -other.inex
\* a negative operand rounded upward, inexactly
C14_Witness ==
  AtanhDone /\ xt.sign < 0 /\ rnd = "RNDU" /\ inex # 0 /\ y.sign < 0

\* C15: mpfr_atanh of NaN stores NaN, of +0 stores +0 and of -0 stores -0
\* returning 0; no temporary (the copy of |x|, t, te, ti) is initialised on
\* these paths.
C15_AtanhNanZero ==
  (pc = "done" /\ fn = "atanh")
    => /\ xt.kind = "nan" => y.kind = "nan"
       /\ xt.kind = "zero"
            => (y.kind = "zero" /\ y.sign = xt.sign /\ inex = 0)
       /\ xt.kind \in {"nan", "zero"}
            => (trials = 0 /\ \A tmp \in AtanhTemps : inits[tmp] = 0)
\* atanh(-0)
C15_Witness ==
  /\ pc = "done" /\ fn = "atanh" /\ xt.kind = "zero" /\ xt.sign < 0
  /\ y.kind = "zero" /\ y.sign < 0

\* The values within 2^(EXP(t) - err) of |t|, as magnitudes in units of half
\* a unit in the last place of t: between two neighbours of this set no
\* rounding to fewer bits than t has changes.
NearT == LET e == 2^(t.prec - err) IN (2 * t.m - 2 * e) .. (2 * t.m + 2 * e)
\* the magnitude of y in those units
YMag == y.m * 2^((y.exp - y.prec) - (t.exp - t.prec) + 1)

C17_Copysign ==
  (pc = "done" /\ fn \in CopysignFns) =>
    LET v == y.sign * Abs(Val(x)) IN
    /\ dst.sign = y.sign
    /\ dst.kind = x.kind
    /\ Regular(x) => /\ IsRounding(dst, v, rnd)
                     /\ Sgn(inex) = Sgn(Val(dst) - v)
    /\ dst.prec >= x.prec => (inex = 0 /\ Val(dst) = v)
    /\ mpfr_copysign(dst, x, y, rnd) = mpfr_copysign_macro(dst, x, y, rnd)
\* a rounding: z narrower than x, signs of x and y opposite
C17_Witness ==
  /\ pc = "done" /\ fn = "copysign_macro" /\ Regular(x) /\ inex # 0
  /\ x.sign # y.sign

\* the integer n is the number v (in units of 2^(-ValScale)) rounded to an
\* integer in the direction mode
IsIntRounding(n, v, mode) ==
  LET one  == 2^ValScale
      down == n * one <= v /\ v < (n + 1) * one
      up   == (n - 1) * one < v /\ v <= n * one
  IN CASE mode = "RNDD" -> down
       [] mode = "RNDU" -> up
       [] mode = "RNDZ" -> IF v > 0 THEN down ELSE up
       [] mode = "RNDA" -> IF v > 0 THEN up ELSE down
       [] mode = "RNDN" -> \/ 2 * Abs(v - n * one) < one
                           \/ 2 * Abs(v - n * one) = one /\ n % 2 = 0

\* C18: the fits predicate returns 0 for NaN and the infinities, 1 for a
\* zero, and for a regular f nonzero exactly when f rounded to an integer in
\* the direction rnd lies in MINIMUM .. MAXIMUM; f is left as it was.
C18_Fits ==
  [][(pc = "call" /\ fn = "fits") =>
       /\ arg' = arg
       /\ arg.kind \in {"nan", "inf"} => fits' = 0
       /\ arg.kind = "zero" => fits' = 1
       /\ Regular(arg) =>
            ((fits' # 0) <=>
               \E n \in MINIMUM .. MAXIMUM : IsIntRounding(n, Val(arg), rnd))]_vars
\* a positive f inside the range whose rounding is MAXIMUM + 1
C18_Witness ==
  /\ pc = "done" /\ fn = "fits" /\ Regular(arg) /\ arg.sign > 0
  /\ Val(arg) < (MAXIMUM + 1) * 2^ValScale /\ fits = 0

\* f is the rational n / d (d > 0, n # 0) rounded to the precision of f in
\* the direction mode: IsRounding with both sides multiplied by d
IsRoundingQ(g, n, d, mode) ==
  LET v     == n * 2^ValScale
      here  == Val(g) * d
      above == Val(NextAbove(g)) * d
      below == Val(NextBelow(g)) * d
      down  == here <= v /\ v < above
      up    == below < v /\ v <= here
  IN /\ g.kind = "reg"
     /\ WellFormed(g)
     /\ CASE mode = "RNDD" -> down
          [] mode = "RNDU" -> up
          [] mode = "RNDZ" -> IF v > 0 THEN down ELSE up
          [] mode = "RNDA" -> IF v > 0 THEN up ELSE down
          [] mode = "RNDN" ->
               \/ here = v
               \/ here < v /\ (v - here < above - v
                                 \/ (v - here = above - v /\ g.m % 2 = 0))
               \/ here > v /\ (here - v < v - below
                                 \/ (here - v = v - below /\ g.m % 2 = 0))

\* C19: every call of mpfr_set_q returns, having stored num/den rounded to
\* the precision of f under rnd and returning the ternary value of that
\* rounding; a zero numerator gives a zero and 0.
C19_SetQ ==
  (fn = "set_q" /\ pc # "call") =>
    /\ pc = "done"
    /\ rat.num = 0 => (dst.kind = "zero" /\ inex = 0)
    /\ rat.num # 0 =>
         /\ IsRoundingQ(dst, rat.num, rat.den, rnd)
         /\ Sgn(inex) = Sgn(Val(dst) * rat.den - rat.num * 2^ValScale)

\* C20: with a singular operand or a zero divisor mpfr_div returns 0 under
\* every mode and stores: NaN for a NaN operand, 0/0 and Inf/Inf; an
\* infinity for Inf/finite; a zero for finite/Inf; for a finite nonzero
\* dividend and a zero divisor an infinity of the sign of the product.
C20_DivSpecial ==
  (pc = "done" /\ fn = "div") =>
    /\ (x.kind = "nan" \/ y.kind = "nan") => (dst.kind = "nan" /\ inex = 0)
    /\ (x.kind = "zero" /\ y.kind = "zero") => (dst.kind = "nan" /\ inex = 0)
    /\ (x.kind = "inf" /\ y.kind = "inf") => (dst.kind = "nan" /\ inex = 0)
    /\ (x.kind = "inf" /\ y.kind \in {"reg", "zero"})
         => (dst.kind = "inf" /\ inex = 0)
    /\ (x.kind \in {"reg", "zero"} /\ y.kind = "inf")
         => (dst.kind = "zero" /\ inex = 0)
    /\ (x.kind = "reg" /\ y.kind = "zero")
         => (dst.kind = "inf" /\ dst.sign = x.sign * y.sign /\ inex = 0)
\* -1 / -0 = +Inf
C20_Witness ==
  /\ pc = "done" /\ fn = "div" /\ x.kind = "reg" /\ x.sign < 0
  /\ y.kind = "zero" /\ y.sign < 0 /\ dst.kind = "inf" /\ dst.sign > 0

\* the string w lowercased byte by byte, with its terminator
Lowered(w) == [i \in 1 .. Len(w) + 1 |-> tolower(ByteAt(w, i))]
\* the first place where two different sequences of this kind differ
FirstDiff(a, b) ==
  CHOOSE i \in 1 .. Len(a) :
    /\ i <= Len(b)
    /\ a[i] # b[i]
    /\ \A j \in 1 .. i - 1 : a[j] = b[j]

\* C21: mpfr_strcasecmp returns 0 exactly when the lowercased strings are
\* equal, otherwise a value of the sign of the difference of the first
\* differing lowercased bytes as unsigned char (the terminator of a proper
\* prefix compares less); exchanging the arguments negates the sign, and a
\* string compares equal to itself.
C21_Strcasecmp ==
  (pc = "done" /\ fn \in StrFns) =>
    LET a == Lowered(s1)
        b == Lowered(s2)
    IN /\ result = 0 <=> a = b
       /\ a # b => Sgn(result) = Sgn(a[FirstDiff(a, b)] - b[FirstDiff(a, b)])
       /\ Sgn(result) = -Sgn(mpfr_strcasecmp(s2, s1, fn = "strcasecmp_same"))
       /\ mpfr_strcasecmp(s1, s1, TRUE) = 0
       /\ mpfr_strcasecmp(s1, s1, FALSE) = 0
\* a byte above 127 against a letter of the other case
C21_Witness ==
  /\ pc = "done" /\ fn = "strcasecmp" /\ Len(s1) = 2 /\ Len(s2) = 2
  /\ s1[1] = 65 /\ s2[1] = 97 /\ s1[2] = 200 /\ s2[2] = 66 /\ result > 0

\* the operand of mpfr_atanh is finite with |xt| >= 1
AtanhOutside == fn = "atanh" /\ Regular(xt) /\ Abs(Val(xt)) >= 2^ValScale

\* C22: the escalation loop is capped: with MaxNt taken as the cap of the
\* working precision, mpfr_atanh never stands at the head of its loop with a
\* working precision beyond the cap (it has returned or stopped with a fatal
\* assertion before).
C22_EscalationCapped ==
  (fn = "atanh" /\ pc = "loop") => Nt <= MaxNt

\* C23: mpfr_atanh terminates, here on the finite operands with |x| = 1 or
\* |x| > 1: the call returns in the end.
C23_AtanhTerminates ==
  AtanhOutside ~> (pc = "done")

\* C24: when mpfr_gamma returns, every temporary it initialised has been
\* released exactly once: as many releases as initialisations for each, and
\* none live.
C24_GammaTemporaries ==
  (fn = "gamma" /\ pc = "done") =>
    /\ live = {}
    /\ \A tmp \in GammaTemps : inits[tmp] = clears[tmp]

\* the temporaries of the function called
OwnTemps == IF fn = "atanh" THEN AtanhTemps ELSE Rem1Temps
\* the call is one that returns from its special-case block
SpecialCall ==
  IF fn = "atanh" THEN MPFR_IS_SINGULAR(xt)
  ELSE MPFR_IS_SINGULAR(x) \/ MPFR_IS_SINGULAR(y)

\* C25: in mpfr_rem1 and mpfr_atanh no temporary is initialised twice or
\* released more often than initialised; a special-case call initialises
\* none; at the return none is live, and a call past the special cases has
\* initialised and released each of its temporaries once.
C25_Temporaries ==
  (fn \in Rem1Fns \cup {"atanh"}) =>
    /\ \A tmp \in Temps : inits[tmp] <= 1 /\ clears[tmp] <= inits[tmp]
    /\ \A tmp \in Temps \ OwnTemps : inits[tmp] = 0
    /\ SpecialCall => inits = NoCounts
    /\ pc = "done" =>
         /\ live = {}
         /\ ~SpecialCall =>
              \A tmp \in OwnTemps : inits[tmp] = 1 /\ clears[tmp] = 1
C25_Witness ==
  /\ fn = "atanh" /\ pc = "done"
  /\ \A tmp \in AtanhTemps : inits[tmp] = 1 /\ clears[tmp] = 1
  /\ trials > 1

\* the exponent range configured (__gmpfr_emin, __gmpfr_emax): the smallest
\* that holds the operands drawn and their roundings to a smaller precision
Emin == 0
Emax == ExpSpan + 1

\* C26: rem never holds a regular number whose exponent is outside
\* [Emin, Emax].
C26_RemExponentInRange ==
  (fn \in Rem1Fns /\ Regular(rem)) => (rem.exp >= Emin /\ rem.exp <= Emax)

\* the magnitudes C27 allows *quo
QuoBound == 2^WANTED_BITS - 1

\* C27: *quo and the value each step is about to store in it stay within
\* [-(2^WANTED_BITS - 1), 2^WANTED_BITS - 1]: the quotient read from mx, its
\* increment by 1 when the remainder is corrected, and its product by sign.
C27_QuoInRange ==
  (fn = "remquo" /\ Regular(x) /\ Regular(y)) =>
    /\ Abs(quo) <= QuoBound
    /\ (pc = "divided" /\ r # 0 /\ NeedsCorrection(r, my, q_is_odd, rnd_q))
         => Abs(quo + 1) <= QuoBound
    /\ pc = "rounded" => Abs(quo * sign) <= QuoBound

\* the destination as it is handed to the call
RemDest == Nan(rem.prec, 1)

\* C28: on the same x, y, rnd and destination mpfr_remquo and mpfr_remainder
\* store the same rem and return the same int, and round the quotient with
\* the same parity bit; the call that ran has stored and returned exactly that.
C28_RemquoAsRemainder ==
  (pc = "done" /\ fn \in {"remainder", "remquo"}) =>
    LET withQ == mpfr_remquo(RemDest, x, y, rnd)
        noQ   == mpfr_remainder(RemDest, x, y, rnd)
        own   == IF fn = "remquo" THEN withQ ELSE noQ
    IN /\ rem = own.num /\ inex = own.inex
       /\ (Regular(x) /\ Regular(y)) => q_is_odd = own.odd
       /\ withQ.num = noQ.num
       /\ withQ.inex = noQ.inex
       /\ withQ.odd = noQ.odd
\* the two calls take different paths (ex > ey), the truncated quotient is
\* odd and my has been subtracted from r
C28_Witness ==
  /\ Rem1Done /\ fn = "remquo"
  /\ ex > ey /\ q_is_odd = 1 /\ r < 0
  /\ rem = mpfr_remainder(RemDest, x, y, rnd).num

\* the least k with 2^k >= n
CeilLog2(n) == CHOOSE k \in 0 .. n : 2^k >= n /\ (k = 0 \/ 2^(k - 1) < n)
\* the working precision C29 gives the first trial
FirstNt ==
  LET n == IF xt.prec > y.prec THEN xt.prec ELSE y.prec
  IN n + 4 + CeilLog2(n)

\* C29: in mpfr_atanh the working precision starts at FirstNt; every trial
\* evaluates t at the current Nt, which exceeds the precisions of xt and y,
\* computes err = Nt - (max(4 - EXP(t), 0) + 1) from that Nt (t regular) and
\* then adds exactly 10 to Nt; a retry leaves Nt as it is; the loop is left
\* only with err >= 0, can-round accepting and t nonzero.
C29_AtanhPrecisions ==
  [][fn = "atanh" =>
       /\ (pc = "call" /\ pc' = "loop") => Nt' = FirstNt
       /\ (pc = "loop" /\ pc' = "check") =>
            /\ t'.prec = Nt
            /\ Nt > xt.prec /\ Nt > y.prec
            /\ Nt' = Nt + 10
            /\ Nt = FirstNt + 10 * trials
            /\ Regular(t') =>
                 err' = Nt - ((IF 4 - t'.exp > 0 THEN 4 - t'.exp ELSE 0) + 1)
       /\ (pc = "check" /\ pc' = "loop") => Nt' = Nt
       /\ (pc = "check" /\ pc' = "done") =>
            /\ err >= 0
            /\ mpfr_can_round(t, err, "RNDN", "RNDZ",
                              y.prec + (IF rnd = "RNDN" THEN 1 ELSE 0))
            /\ ~MPFR_IS_ZERO(t)]_vars
\* a call that returned after a rejected trial: two trials, Nt raised twice
C29_Witness ==
  /\ fn = "atanh" /\ pc = "done" /\ Regular(xt)
  /\ trials = 2 /\ Nt = FirstNt + 20 /\ t.prec = FirstNt + 10
  /\ err = t.prec - ((IF 4 - t.exp > 0 THEN 4 - t.exp ELSE 0) + 1)

\* the least integer not below 1.84 * a
Ceil184(a) == CHOOSE n \in 0 .. 2 * a + 1 : 100 * n >= 184 * a /\ 100 * (n - 1) < 184 * a
\* the temporaries every trial of mpfr_gamma evaluates the series in
SeriesTemps == {"xp", "tmp", "tmp2", "the_pi", "product", "GammaTrial"}

\* C30: in mpfr_gamma realprec starts at the precision of gamma plus 10; a
\* rejected trial adds ceil(log2(realprec)) > 0 to it and leaves gamma as it
\* was; every trial works at Prec = prec_nec + ceil(1.84 * A) + 20, above
\* the Prec of the trial before, in temporaries it initialises itself, and
\* does not write gamma before the check; past the special cases gamma is
\* written only by the step that accepts.
C30_GammaPrecisions ==
  [][fn = "gamma" =>
       /\ (pc = "call" /\ pc' = "loop") => realprec' = gamma.prec + 10
       /\ (pc = "loop" /\ pc' = "check") =>
            /\ Prec' = prec_nec' + Ceil184(A') + 20
            /\ trials > 0 => Prec' > Prec
            /\ \A tmp \in SeriesTemps : inits'[tmp] = inits[tmp] + 1
            /\ gamma' = gamma /\ realprec' = realprec
       /\ (pc = "check" /\ good' = 0) =>
            /\ realprec' = realprec + CeilLog2(realprec)
            /\ realprec' > realprec
            /\ gamma' = gamma
       /\ (pc # "call" /\ gamma' # gamma) => (pc = "check" /\ good' = 1)]_vars
\* a call that returned after a rejected trial
C30_Witness ==
  /\ fn = "gamma" /\ pc = "done" /\ good = 1
  /\ trials = 2
  /\ realprec = gamma.prec + 10 + CeilLog2(gamma.prec + 10)
  /\ gamma.kind = "reg"

====
